---- MODULE Spec2Model ----
(***************************************************************************)
(* mysql-cli-py: the transaction coordinator (Transactional,               *)
(* _get_tx_cnx_and_cur, _clear_tx_status), the query executor              *)
(* (_BaseQuery.execute_in_wrapper, Insert, BatchInsert) and the            *)
(* placeholder rewriter (parse_search_and_update_sql_params) of            *)
(* src/mysql_cli/query.py, over an abstract pooled SQL engine.             *)
(*                                                                         *)
(* Engine abstraction (mysql.connector, outside the repository):           *)
(*   - the pool hands out a connection nobody holds, blocking while none   *)
(*     is free; closing a pooled connection resets its session (pending    *)
(*     writes are discarded) and returns it to the pool;                   *)
(*   - in_transaction is set by start_transaction and reset by a           *)
(*     successful commit or rollback; a failed engine call changes nothing;*)
(*   - outside a transaction a statement is committed at once (the test    *)
(*     database runs with autocommit, tests/test_query.py:27-28);          *)
(*   - cursor(), start_transaction(), execute(), commit(), rollback() and  *)
(*     cursor.close() may each fail, at most MaxFaults times in a run.     *)
(***************************************************************************)
EXTENDS Integers, Sequences, FiniteSets, TLC

\* ---------------------------------------------------------------- bounds
NumThreads == 2
PoolSize == 2
MaxDepth == 3
MaxCalls == 2
MaxFaults == 1
MaxRwCalls == 2

Threads == 1..NumThreads
Conns == 1..PoolSize

VARIABLES
    held,     \* pool: held[c] = the thread that acquired connection c, 0 if free
    intx,     \* intx[c]: connection c's in_transaction
    pend,     \* pend[c]: rows written on c inside its open transaction
    db,       \* committed rows
    tl,       \* thread_local: tl[slot] = [cnx, cur], 0 / FALSE for an absent attribute
    stack,    \* stack[t]: the call stack of thread t, innermost frame last
    obs,      \* obs[t]: rows written and failures raised during t's current top-level call
    last,     \* last[t]: what t's last completed top-level call did and delivered
    ncalls,   \* decorated calls begun so far
    nfaults,  \* engine failures so far
    qkind,    \* the kind of the query definition the rewriter runs for
    sql0,     \* its SQL template as given to the constructor
    sql,      \* its self.sql
    rw,       \* rw[t]: thread t's call of the definition: position, parameters, values
    calls,    \* the completed calls of the definition, in order
    inited    \* MySQLWrapper._shared_state holds mysql_connection_pool

txvars == <<held, intx, pend, db, tl, stack, obs, last, ncalls, nfaults>>
rwvars == <<qkind, sql0, sql, rw, calls>>
vars == <<txvars, rwvars, inited>>

NoBinding == [cnx |-> 0, cur |-> FALSE]
NoLast == [kind |-> "none", fn |-> "none", owner |-> FALSE, out |-> "none", val |-> 0,
           bodyErr |-> "notrun", bodyVal |-> 0, ncommit |-> 0, rb |-> "none",
           faults |-> {}, w |-> {}, fail |-> FALSE, caught |-> FALSE]
NoObs == [w |-> {}, fail |-> FALSE, caught |-> FALSE]

\* thread_local = threading.local(): every thread has its own attribute dict.
SlotShared(t) == 1
Slot(t) == t

\* get_connection(): the pool's next free connection.
FreeConns == {c \in Conns : held[c] = 0}
PoolGet == CHOOSE c \in FreeConns : \A d \in FreeConns : c <= d

\* MySQLWrapper.get_connection (client.py:15-20): RuntimeError("MySQL not inited, ...")
\* unless the state all instances share holds a pool.
GetConnectionNeverRaises == FALSE
GetConnectionRaises == ~inited

\* An engine call may fail while the run's fault budget lasts.
Outcomes == IF nfaults < MaxFaults THEN {TRUE, FALSE} ELSE {TRUE}
Spend(ok) == IF ok THEN nfaults ELSE nfaults + 1

NewFrame(kind, fn, id) ==
    [kind |-> kind, fn |-> fn, id |-> id, pc |-> "enter", owner |-> FALSE, cnx |-> 0,
     err |-> "none", val |-> 0, ran |-> FALSE, bodyErr |-> "notrun", bodyVal |-> 0,
     ncommit |-> 0, rb |-> "none", faults |-> {}]

Depth(t) == Len(stack[t])
Top(t) == stack[t][Depth(t)]
Running(t, kind, pc) == Depth(t) > 0 /\ Top(t).kind = kind /\ Top(t).pc = pc
SetTop(t, f) == [stack EXCEPT ![t][Depth(t)] = f]
Push(t, caller, callee) == [stack EXCEPT ![t] = Append([@ EXCEPT ![Depth(t)] = caller], callee)]

\* The caller's frame once the call it waits for has returned val or raised err.
Resume(g, err, val) ==
    IF err = "none" THEN [g EXCEPT !.pc = "body", !.val = val]
    ELSE [g EXCEPT !.pc = "handle", !.err = err]

\* The innermost frame f of t exits, returning val or raising err (err # "none").
Exit(t, f, err, val, o) ==
    /\ stack' = [stack EXCEPT ![t] =
                    IF Depth(t) = 1 THEN <<>>
                    ELSE [SubSeq(@, 1, Depth(t) - 1) EXCEPT ![Depth(t) - 1] = Resume(@, err, val)]]
    /\ last' = IF Depth(t) > 1 THEN last
               ELSE [last EXCEPT ![t] =
                       [kind |-> f.kind, fn |-> f.fn, owner |-> f.owner, out |-> err,
                        val |-> IF err = "none" THEN val ELSE 0,
                        bodyErr |-> f.bodyErr, bodyVal |-> f.bodyVal, ncommit |-> f.ncommit,
                        rb |-> f.rb, faults |-> f.faults, w |-> o.w, fail |-> o.fail,
                        caught |-> o.caught]]
    /\ obs' = [obs EXCEPT ![t] = o]

TxInit ==
    /\ held = [c \in Conns |-> 0]
    /\ intx = [c \in Conns |-> FALSE]
    /\ pend = [c \in Conns |-> {}]
    /\ db = {}
    /\ tl = [t \in Threads |-> NoBinding]
    /\ stack = [t \in Threads |-> <<>>]
    /\ obs = [t \in Threads |-> NoObs]
    /\ last = [t \in Threads |-> NoLast]
    /\ ncalls = 0
    /\ nfaults = 0

\* A thread with nothing on its stack calls a Transactional function, a BatchInsert
\* or an Insert-decorated function. Threads are interchangeable: thread t + 1 makes its
\* first call after thread t has made one. last[t] describes the call just completed
\* until the thread calls again.
Callables == {<<"tx", "user">>, <<"tx", "batch">>, <<"q", "insert">>}

TopCall(t, what) ==
    /\ stack[t] = <<>>
    /\ ncalls < MaxCalls
    /\ IF t = 1 THEN TRUE ELSE (stack[t - 1] # <<>> \/ last[t - 1].kind # "none")
    /\ ncalls' = ncalls + 1
    /\ stack' = [stack EXCEPT ![t] = <<NewFrame(what[1], what[2], ncalls + 1)>>]
    /\ obs' = [obs EXCEPT ![t] = NoObs]
    /\ last' = [last EXCEPT ![t] = [NoLast EXCEPT !.kind = "running"]]
    /\ UNCHANGED <<held, intx, pend, db, tl, nfaults>>
    /\ UNCHANGED <<rwvars, inited>>

\* ------------------------------------------------- Transactional (lines 12-43)

\* line 28: "if not tx_cnx.in_transaction": this call controls commit and rollback.
IsOwnerAlways(inTransaction) == TRUE
IsOwner(inTransaction) == ~inTransaction

\* line 27: _get_tx_cnx_and_cur(create=True), outside the try block, then line 28.
\* A failing cursor() leaves the exception to the caller with tx_cnx already bound;
\* a get_connection() that raises (line 49) leaves it before anything is bound.
TxEnter(t) ==
    /\ Running(t, "tx", "enter")
    /\ LET f == Top(t)
           b == tl[Slot(t)]
       IN IF b.cnx = 0 /\ GetConnectionRaises
          THEN /\ Exit(t, f, "E_notinited", 0, [obs[t] EXCEPT !.fail = TRUE])
               /\ UNCHANGED <<held, tl, nfaults>>
          ELSE
          /\ b.cnx # 0 \/ FreeConns # {}
          /\ LET c == IF b.cnx # 0 THEN b.cnx ELSE PoolGet
             IN /\ held' = IF b.cnx # 0 THEN held ELSE [held EXCEPT ![c] = t]
                /\ \E ok \in (IF b.cur THEN {TRUE} ELSE Outcomes) :
                      /\ nfaults' = Spend(ok)
                      /\ IF ok
                         THEN /\ tl' = [tl EXCEPT ![Slot(t)] = [cnx |-> c, cur |-> TRUE]]
                              /\ stack' = SetTop(t, [f EXCEPT !.cnx = c,
                                                       !.owner = IsOwner(intx[c]),
                                                       !.pc = IF IsOwner(intx[c]) THEN "start" ELSE "body"])
                              /\ UNCHANGED <<last, obs>>
                         ELSE /\ tl' = [tl EXCEPT ![Slot(t)] = [cnx |-> c, cur |-> FALSE]]
                              /\ Exit(t, [f EXCEPT !.faults = {"cursor"}], "E_cursor", 0,
                                      [obs[t] EXCEPT !.fail = TRUE])
    /\ UNCHANGED <<intx, pend, db, ncalls>>
    /\ UNCHANGED <<rwvars, inited>>

\* line 31: tx_cnx.start_transaction(); a failure lands in the except clause.
TxStart(t) ==
    /\ Running(t, "tx", "start")
    /\ LET f == Top(t)
       IN \E ok \in Outcomes :
             /\ nfaults' = Spend(ok)
             /\ intx' = IF ok THEN [intx EXCEPT ![f.cnx] = TRUE] ELSE intx
             /\ stack' = SetTop(t, IF ok THEN [f EXCEPT !.pc = "body"]
                                   ELSE [f EXCEPT !.pc = "rollback", !.err = "E_start",
                                                  !.faults = @ \cup {"start"}])
             /\ obs' = IF ok THEN obs ELSE [obs EXCEPT ![t].fail = TRUE]
    /\ UNCHANGED <<held, pend, db, tl, last, ncalls>>
    /\ UNCHANGED <<rwvars, inited>>

\* lines 32-37: after self.func(...) the owner commits, or rolls back on an exception.
OwnerAfterBodyNoCommit(err) == IF err = "none" THEN "clear" ELSE "rollback"
OwnerAfterBodyNoRollback(err) == IF err = "none" THEN "commit" ELSE "clear"
OwnerAfterBodyCommitAnyway(err) == "commit"
OwnerAfterBodyRollbackAnyway(err) == "rollback"
OwnerAfterBody(err) == IF err = "none" THEN "commit" ELSE "rollback"

\* self.func(...) returns val or raises err: lines 32-37 for the owner, line 43 otherwise.
Leave(t, err, val, o) ==
    LET f == [Top(t) EXCEPT !.bodyErr = err, !.bodyVal = val, !.err = err, !.val = val]
    IN IF f.owner
       THEN /\ stack' = SetTop(t, [f EXCEPT !.pc = OwnerAfterBody(err)])
            /\ obs' = [obs EXCEPT ![t] = o]
            /\ UNCHANGED last
       ELSE Exit(t, f, err, val, o)

\* The wrapped user function calls a decorated function (tests/test_query.py:284-292).
BodyCall(t, what) ==
    /\ Running(t, "tx", "body")
    /\ Top(t).fn = "user"
    /\ ncalls < MaxCalls
    /\ Depth(t) + (IF what[2] = "batch" THEN 2 ELSE 1) <= MaxDepth
    /\ ncalls' = ncalls + 1
    /\ stack' = Push(t, [Top(t) EXCEPT !.pc = "wait"], NewFrame(what[1], what[2], ncalls + 1))
    /\ UNCHANGED <<held, intx, pend, db, tl, obs, last, nfaults>>
    /\ UNCHANGED <<rwvars, inited>>

\* BatchInsert.execute_in_wrapper (lines 242-244): the Transactional body is
\* super().execute_in_wrapper, the query executor of the same definition.
BatchBody(t) ==
    /\ Running(t, "tx", "body")
    /\ Top(t).fn = "batch"
    /\ ~Top(t).ran
    /\ stack' = Push(t, [Top(t) EXCEPT !.pc = "wait", !.ran = TRUE],
                     NewFrame("q", "batch", Top(t).id))
    /\ UNCHANGED <<held, intx, pend, db, tl, obs, last, ncalls, nfaults>>
    /\ UNCHANGED <<rwvars, inited>>

\* The user function raises.
BodyRaise(t) ==
    /\ Running(t, "tx", "body")
    /\ Top(t).fn = "user"
    /\ Leave(t, "E_body", 0, [obs[t] EXCEPT !.fail = TRUE])
    /\ UNCHANGED <<held, intx, pend, db, tl, ncalls, nfaults>>
    /\ UNCHANGED <<rwvars, inited>>

\* The wrapped function returns (the result of its last call, 0 for None).
BodyReturn(t) ==
    /\ Running(t, "tx", "body")
    /\ Top(t).fn = "user" \/ Top(t).ran
    /\ Leave(t, "none", Top(t).val, obs[t])
    /\ UNCHANGED <<held, intx, pend, db, tl, ncalls, nfaults>>
    /\ UNCHANGED <<rwvars, inited>>

\* A call made by the user function raised, and the function catches the exception.
BodyCatch(t) ==
    /\ Running(t, "tx", "handle")
    /\ Top(t).fn = "user"
    /\ stack' = SetTop(t, [Top(t) EXCEPT !.pc = "body", !.err = "none"])
    /\ obs' = [obs EXCEPT ![t].caught = TRUE]
    /\ UNCHANGED <<held, intx, pend, db, tl, last, ncalls, nfaults>>
    /\ UNCHANGED <<rwvars, inited>>

\* A call made by the wrapped function raised, and the exception leaves the function.
BodyPropagate(t) ==
    /\ Running(t, "tx", "handle")
    /\ Leave(t, Top(t).err, 0, obs[t])
    /\ UNCHANGED <<held, intx, pend, db, tl, ncalls, nfaults>>
    /\ UNCHANGED <<rwvars, inited>>

\* line 33: tx_cnx.commit(); a failure lands in the except clause.
TxCommit(t) ==
    /\ Running(t, "tx", "commit")
    /\ LET f == Top(t)
           c == f.cnx
       IN \E ok \in Outcomes :
             /\ nfaults' = Spend(ok)
             /\ db' = IF ok THEN db \cup pend[c] ELSE db
             /\ pend' = IF ok THEN [pend EXCEPT ![c] = {}] ELSE pend
             /\ intx' = IF ok THEN [intx EXCEPT ![c] = FALSE] ELSE intx
             /\ stack' = SetTop(t, IF ok THEN [f EXCEPT !.pc = "clear", !.ncommit = @ + 1]
                                   ELSE [f EXCEPT !.pc = "rollback", !.err = "E_commit",
                                                  !.faults = @ \cup {"commit"}])
             /\ obs' = IF ok THEN obs ELSE [obs EXCEPT ![t].fail = TRUE]
    /\ UNCHANGED <<held, tl, last, ncalls>>
    /\ UNCHANGED <<rwvars, inited>>

\* lines 35-37: tx_cnx.rollback(), then "raise" re-raises the exception being handled;
\* an exception of rollback() itself replaces it.
TxRollback(t) ==
    /\ Running(t, "tx", "rollback")
    /\ LET f == Top(t)
           c == f.cnx
       IN \E ok \in Outcomes :
             /\ nfaults' = Spend(ok)
             /\ pend' = IF ok THEN [pend EXCEPT ![c] = {}] ELSE pend
             /\ intx' = IF ok THEN [intx EXCEPT ![c] = FALSE] ELSE intx
             /\ stack' = SetTop(t, IF ok THEN [f EXCEPT !.pc = "clear", !.rb = "ok"]
                                   ELSE [f EXCEPT !.pc = "clear", !.rb = "fail",
                                                  !.err = "E_rollback",
                                                  !.faults = @ \cup {"rollback"}])
    /\ UNCHANGED <<held, db, tl, obs, last, ncalls>>
    /\ UNCHANGED <<rwvars, inited>>

\* lines 38-40: "finally" runs _clear_tx_status() on every path out of the try block.
TeardownUnlessRollbackFailed(f) == f.faults = {}
Teardown(f) == TRUE

\* _clear_tx_status (lines 60-69), then the call returns or raises. A failing
\* tx_cur.close() raises before either attribute is deleted.
TxClear(t) ==
    /\ Running(t, "tx", "clear")
    /\ LET f == Top(t)
           b == tl[Slot(t)]
       IN IF ~Teardown(f)
          THEN /\ Exit(t, f, f.err, f.val, obs[t])
               /\ UNCHANGED <<tl, held, pend, intx, nfaults>>
          ELSE \E ok \in (IF b.cur THEN Outcomes ELSE {TRUE}) :
                  /\ nfaults' = Spend(ok)
                  /\ IF ok
                     THEN /\ tl' = [tl EXCEPT ![Slot(t)] = NoBinding]
                          /\ held' = IF b.cnx # 0 THEN [held EXCEPT ![b.cnx] = 0] ELSE held
                          /\ pend' = IF b.cnx # 0 THEN [pend EXCEPT ![b.cnx] = {}] ELSE pend
                          /\ intx' = IF b.cnx # 0 THEN [intx EXCEPT ![b.cnx] = FALSE] ELSE intx
                          /\ Exit(t, f, f.err, f.val, obs[t])
                     ELSE /\ UNCHANGED <<tl, held, pend, intx>>
                          /\ Exit(t, [f EXCEPT !.faults = @ \cup {"close"}], "E_close", 0,
                                  [obs[t] EXCEPT !.fail = TRUE])
    /\ UNCHANGED <<db, ncalls>>
    /\ UNCHANGED <<rwvars, inited>>

\* ------------------------------------------- _BaseQuery.execute_in_wrapper (102-110)

\* line 104: "if tx_cnx and tx_cur": use the shared thread-local connection.
UseSharedNever(b) == FALSE
UseShared(b) == b.cnx # 0 /\ b.cur

\* lines 103-109: the ambient binding, or a pooled connection and a prepared cursor of
\* the call's own ("with" closes the connection when cursor() fails).
QEnter(t) ==
    /\ Running(t, "q", "enter")
    /\ LET f == Top(t)
           b == tl[Slot(t)]
       IN IF UseShared(b)
          THEN /\ stack' = SetTop(t, [f EXCEPT !.cnx = b.cnx, !.owner = FALSE, !.pc = "exec"])
               /\ UNCHANGED <<held, nfaults, last, obs>>
          ELSE IF GetConnectionRaises
          THEN /\ Exit(t, f, "E_notinited", 0, [obs[t] EXCEPT !.fail = TRUE])
               /\ UNCHANGED <<held, nfaults>>
          ELSE /\ FreeConns # {}
               /\ \E ok \in Outcomes :
                     /\ nfaults' = Spend(ok)
                     /\ IF ok
                        THEN /\ held' = [held EXCEPT ![PoolGet] = t]
                             /\ stack' = SetTop(t, [f EXCEPT !.cnx = PoolGet, !.owner = TRUE,
                                                              !.pc = "exec"])
                             /\ UNCHANGED <<last, obs>>
                        ELSE /\ UNCHANGED held
                             /\ Exit(t, [f EXCEPT !.faults = {"cursor"}], "E_cursor", 0,
                                     [obs[t] EXCEPT !.fail = TRUE])
    /\ UNCHANGED <<intx, pend, db, tl, ncalls>>
    /\ UNCHANGED <<rwvars, inited>>

\* Insert.execute_sql (231-234) / BatchInsert.execute_sql (246-250): one statement on
\* the cursor, then lines 108-110 release what the call acquired itself.
QExec(t) ==
    /\ Running(t, "q", "exec")
    /\ LET f == Top(t)
           c == f.cnx
       IN \E ok \in Outcomes :
             LET err == IF ok THEN "none" ELSE "E_exec"
                 wrote == IF ok THEN {f.id} ELSE {}
             IN /\ nfaults' = Spend(ok)
                /\ db' = IF intx[c] THEN db ELSE db \cup wrote
                /\ pend' = IF f.owner THEN [pend EXCEPT ![c] = {}]
                           ELSE IF intx[c] THEN [pend EXCEPT ![c] = @ \cup wrote] ELSE pend
                /\ held' = IF f.owner THEN [held EXCEPT ![c] = 0] ELSE held
                /\ intx' = IF f.owner THEN [intx EXCEPT ![c] = FALSE] ELSE intx
                /\ Exit(t, f, err, f.id,
                        [obs[t] EXCEPT !.w = @ \cup wrote, !.fail = @ \/ ~ok])
    /\ UNCHANGED <<tl, ncalls>>
    /\ UNCHANGED <<rwvars, inited>>

\* ------------------------------------------------ SQL text and parameter values
\* SQL text is a sequence of characters. Parameter values carry their Python type:
\* "none", "int", "str" (s: its characters), "list" / "tuple" (items), "dict" (map).

EmptyMap == [x \in {} |-> 0]
Sc(ty, str) == [ty |-> ty, s |-> str, items |-> <<>>, map |-> EmptyMap]
Li(ty, items) == [ty |-> ty, s |-> <<>>, items |-> items, map |-> EmptyMap]
Di(m) == [ty |-> "dict", s |-> <<>>, items |-> <<>>, map |-> m]
None == Sc("none", <<>>)

\* \w of the pattern r':\w+' (line 208), over the characters the templates use.
WordChars == {"a", "b", "c", "d", "e", "g", "n", "o", "p", "r", "u", "y", "x", "1", "2", "_"}
\* the character class [a-zA-Z0-9_ ] of line 182
IdentChars == WordChars \cup {" "}

\* str.count(ch)
Count(str, ch) == Cardinality({i \in 1..Len(str) : str[i] = ch})

\* str.split(ch)
RECURSIVE Split(_, _)
Split(str, ch) ==
    IF \A i \in 1..Len(str) : str[i] # ch THEN <<str>>
    ELSE LET k == CHOOSE i \in 1..Len(str) : str[i] = ch /\ \A j \in 1..(i - 1) : str[j] # ch
         IN <<SubSeq(str, 1, k - 1)>> \o Split(SubSeq(str, k + 1, Len(str)), ch)

\* sep.join(parts)
RECURSIVE Join(_, _)
Join(parts, sep) ==
    IF Len(parts) = 0 THEN <<>>
    ELSE IF Len(parts) = 1 THEN parts[1]
    ELSE parts[1] \o sep \o Join(Tail(parts), sep)

\* ', '.join(['?'] * n)
Marks(n) == Join([i \in 1..n |-> <<"?">>], <<",", " ">>)

\* re.findall(r':\w+', str): the non-overlapping matches of a left-to-right scan,
\* each taking as many word characters as follow the colon.
RECURSIVE WordEnd(_, _)
WordEnd(str, i) ==
    IF i < Len(str) /\ str[i + 1] \in WordChars THEN WordEnd(str, i + 1) ELSE i

RECURSIVE ScanFrom(_, _)
ScanFrom(str, i) ==
    IF i > Len(str) THEN <<>>
    ELSE IF str[i] = ":" /\ i < Len(str) /\ str[i + 1] \in WordChars
         THEN <<SubSeq(str, i, WordEnd(str, i + 1))>> \o ScanFrom(str, WordEnd(str, i + 1) + 1)
         ELSE ScanFrom(str, i + 1)

FindAll(str) == ScanFrom(str, 1)

\* str.replace(old, new): every non-overlapping occurrence, left to right.
RECURSIVE Replace(_, _, _)
Replace(str, old, new) ==
    IF Len(str) < Len(old) THEN str
    ELSE IF SubSeq(str, 1, Len(old)) = old
         THEN new \o Replace(SubSeq(str, Len(old) + 1, Len(str)), old, new)
         ELSE <<str[1]>> \o Replace(Tail(str), old, new)

\* re.match(r'^[a-zA-Z0-9_ ]*$', str) for a str: "$" also matches before a final newline.
AllIdent(str) == \A i \in 1..Len(str) : str[i] \in IdentChars
Match(str) ==
    \/ AllIdent(str)
    \/ Len(str) > 0 /\ str[Len(str)] = "\n" /\ AllIdent(SubSeq(str, 1, Len(str) - 1))

IsSeqTy(v) == v.ty \in {"tuple", "list"}

\* ----------------------- parse_search_and_update_sql_params (lines 136-223)
\* Each operator yields [exc, ret, sql, values]: the exception raised ("none" if none),
\* what is returned ("values", "empty" for (), "None"), self.sql afterwards and the
\* values returned.

Result(exc, ret, str, values) == [exc |-> exc, ret |-> ret, sql |-> str, values |-> values]

\* lines 156-167: the i-th marker and the i-th parameter.
ExpandMark(p) == IF IsSeqTy(p) THEN Marks(Len(p.items)) ELSE <<"?">>
FlatValue(p) == IF IsSeqTy(p) THEN p.items ELSE <<p>>

RECURSIVE QuestionSql(_, _, _)
QuestionSql(tmp, params, i) ==
    IF i > Len(params) THEN tmp[i]
    ELSE tmp[i] \o ExpandMark(params[i]) \o QuestionSql(tmp, params, i + 1)

RECURSIVE FlatValues(_)
FlatValues(params) ==
    IF Len(params) = 0 THEN <<>> ELSE FlatValue(params[1]) \o FlatValues(Tail(params))

\* lines 148-169; line 168 assigns the rewritten text to self.sql.
HandleQuestion(cur, params) ==
    IF Len(params) # Count(cur, "?") \/ Count(cur, "?") = 0
    THEN Result("none", "empty", cur, <<>>)
    ELSE Result("none", "values", QuestionSql(Split(cur, "?"), params, 1), FlatValues(params))

GroupBy == <<"g", "r", "o", "u", "p", "b", "y">>
OrderBy == <<"o", "r", "d", "e", "r", "b", "y">>

\* lines 177-201, one placeholder: [stop, text, values]. stop is "no" to go on, else
\* how the loop is left: "empty" (return ()), "None" (return None), "TypeError"
\* (re.match on a value that is no str).
OnePlaceholder(params, tmp) ==
    LET ph == Tail(tmp)
    IN IF ph \notin DOMAIN params THEN [stop |-> "empty", text |-> <<>>, values |-> <<>>]
       ELSE LET v == params[ph]
            IN IF ph = GroupBy \/ ph = OrderBy
               THEN IF v.ty # "str" THEN [stop |-> "TypeError", text |-> <<>>, values |-> <<>>]
                    ELSE IF ~Match(v.s) THEN [stop |-> "None", text |-> <<>>, values |-> <<>>]
                    ELSE [stop |-> "no", text |-> v.s, values |-> <<>>]
               ELSE [stop |-> "no", text |-> ExpandMark(v), values |-> FlatValue(v)]

\* lines 203-204: self.sql = self.sql.replace(placeholders[i], replace_ph[i]) in turn.
RECURSIVE ReplaceAll(_, _, _, _)
ReplaceAll(cur, placeholders, replace_ph, i) ==
    IF i > Len(placeholders) THEN cur
    ELSE ReplaceAll(Replace(cur, placeholders[i], replace_ph[i]), placeholders, replace_ph, i + 1)

\* lines 177-205 from placeholder i on, with replace_ph and values collected so far.
RECURSIVE WordLoop(_, _, _, _, _, _)
WordLoop(cur, params, placeholders, i, replace_ph, values) ==
    IF i > Len(placeholders)
    THEN Result("none", "values", ReplaceAll(cur, placeholders, replace_ph, 1), values)
    ELSE LET one == OnePlaceholder(params, placeholders[i])
         IN IF one.stop = "TypeError" THEN Result("TypeError", "raise", cur, <<>>)
            ELSE IF one.stop # "no" THEN Result("none", one.stop, cur, <<>>)
            ELSE WordLoop(cur, params, placeholders, i + 1,
                          Append(replace_ph, one.text), values \o one.values)

\* lines 172-205
HandleWordEager(cur, params, placeholders) ==
    IF Cardinality(DOMAIN params) # Len(placeholders)
    THEN Result("none", "empty", Replace(cur, placeholders[1], <<"?">>), <<>>)
    ELSE WordLoop(cur, params, placeholders, 1, <<>>, <<>>)
HandleWord(cur, params, placeholders) ==
    IF Cardinality(DOMAIN params) # Len(placeholders)
    THEN Result("none", "empty", cur, <<>>)
    ELSE WordLoop(cur, params, placeholders, 1, <<>>, <<>>)

\* line 217, reached when the template holds a named marker: "if '?' in self.sql".
MixedDialectsAccepted(cur) == FALSE
MixedDialects(cur) == Count(cur, "?") > 0

\* lines 207-223. in is what the call supplies: ret, the decorated function's return
\* value; args, the positional arguments; kw, kwargs['params'] (None when not passed).
ParseSearch(cur, in) ==
    IF Len(FindAll(cur)) = 0
    THEN LET rp == IF in.ret.ty = "none" THEN Li("tuple", in.args) ELSE in.ret
         IN HandleQuestion(cur, IF rp.ty = "tuple" THEN rp.items ELSE <<rp>>)
    ELSE IF MixedDialects(cur) THEN Result("ValueError", "raise", cur, <<>>)
    ELSE IF in.ret.ty = "none" /\ in.kw.ty = "none" THEN Result("KeyError", "raise", cur, <<>>)
    ELSE LET rp == IF in.ret.ty = "none" THEN in.kw ELSE in.ret
         IN IF rp.ty # "dict" THEN Result("none", "empty", cur, <<>>)
            ELSE HandleWord(cur, rp.map, FindAll(cur))


\* ------------------------------- query definitions and the calls made on them

\* Select, SelectMany, Update and Delete all bind through
\* parse_search_and_update_sql_params and differ in what they return.
Kinds == {"Select", "SelectMany", "Update", "Delete"}
Shape(kind) ==
    IF kind = "Select" THEN "row" ELSE IF kind = "SelectMany" THEN "rows" ELSE "rowcount"

\* Templates, after tests/test_query.py:46-128 with the SQL around the markers shortened.
TplIn3 == <<"a", "=", "?", " ", "b", "(", "?", ")", " ", "c", "?", ";">>
TplOne == <<"a", "=", "?">>
TplNoParam == <<"a", "=", "1">>
TplNamed == <<"n", "(", ":", "n", ")", " ", "c", "=", ":", "c">>
TplPrefix == <<"c", "=", ":", "c", " ", "b", "=", ":", "c", "2">>
TplClauses == <<"n", "(", ":", "n", ")", " ", "g", " ", ":">> \o GroupBy \o <<" ", "o", " ", ":">> \o OrderBy
TplMixed == <<"a", "=", "?", " ", "c", "=", ":", "c">>
TplTwice == <<"a", "=", ":", "c", " ", "b", "=", ":", "c">>
Templates == {TplIn3, TplOne, TplNoParam, TplNamed, TplPrefix, TplClauses, TplMixed, TplTwice}

Int1 == Sc("int", <<"1">>)
Int2 == Sc("int", <<"2">>)
StrX == Sc("str", <<"x">>)
List12 == Li("list", <<Int1, Int2>>)
Tuple12 == Li("tuple", <<Int1, Int2>>)
Returns(v) == [ret |-> v, args |-> <<>>, kw |-> None]
Clauses(g, o) == Di((<<"n">> :> List12) @@ (GroupBy :> g) @@ (OrderBy :> o))

\* What a call supplies: the positional calls of the tests (scalars, a list-valued
\* parameter, no parameter, a wrong count) and mappings for the named templates
\* (complete, a key missing, a wrong count, groupby values inside and outside the
\* allow-list, a list-valued groupby, params passed by keyword).
Inputs ==
    { [ret |-> None, args |-> <<>>, kw |-> None],
      [ret |-> None, args |-> <<StrX>>, kw |-> None],
      Returns(StrX),
      Returns(List12),
      Returns(Li("tuple", <<StrX, Int1>>)),
      Returns(Li("tuple", <<StrX, Int2, Int1>>)),
      Returns(Li("tuple", <<StrX, List12, Int1>>)),
      Returns(Li("tuple", <<StrX, Tuple12, Int1>>)),
      Returns(Li("tuple", <<StrX, Li("list", <<>>), Int1>>)),
      Returns(Di((<<"n">> :> List12) @@ (<<"c">> :> Int1))),
      [ret |-> None, args |-> <<>>, kw |-> Di((<<"n">> :> Int2) @@ (<<"c">> :> Tuple12))],
      Returns(Di((<<"c">> :> Int1) @@ (<<"c", "2">> :> Int2))),
      Returns(Di((<<"c">> :> List12) @@ (<<"c", "2">> :> Int1))),
      Returns(Di((<<"n">> :> Int1) @@ (<<"x">> :> Int2))),
      Returns(Di(<<"c">> :> Int1)),
      Returns(Clauses(Sc("str", <<"n">>), Sc("str", <<"n", " ", "c">>))),
      Returns(Clauses(Sc("str", <<"n", ";">>), Sc("str", <<"n">>))),
      Returns(Clauses(Sc("str", <<"n">>), Sc("str", <<"n", "\n">>))),
      Returns(Clauses(Li("list", <<Sc("str", <<"n">>), Sc("str", <<"c">>)>>), Sc("str", <<"n">>))) }

IdleRw == [pc |-> "idle", in |-> Returns(None), before |-> <<>>, ret |-> "none", values |-> <<>>]

\* No query definition under observation (the transaction runs).
RwIdle ==
    /\ qkind = "Select"
    /\ sql0 = <<>>
    /\ sql = <<>>
    /\ rw = [t \in Threads |-> IdleRw]
    /\ calls = <<>>

\* _BaseQuery.__init__ (lines 73-78): self.sql = sql.
RwInit ==
    /\ qkind \in Kinds
    /\ sql0 \in Templates
    /\ sql = sql0
    /\ rw = [t \in Threads |-> IdleRw]
    /\ calls = <<>>

InFlight == Cardinality({t \in Threads : rw[t].pc # "idle"})

Call(in, before, exc, executed, text, values, ret, after) ==
    [in |-> in, before |-> before, exc |-> exc, executed |-> executed, sql |-> text,
     values |-> values, ret |-> ret, after |-> after, shape |-> Shape(qkind)]

\* execute_sql, first statement (lines 267, 282, 304, 315): the parameters are parsed
\* and self.sql rewritten; an exception of the parser ends the call.
RwParse(t, in) ==
    /\ rw[t].pc = "idle"
    /\ Len(calls) + InFlight < MaxRwCalls
    /\ LET r == ParseSearch(sql, in)
       IN /\ sql' = r.sql
          /\ IF r.exc = "none"
             THEN /\ rw' = [rw EXCEPT ![t] = [pc |-> "parsed", in |-> in, before |-> sql,
                                              ret |-> r.ret, values |-> r.values]]
                  /\ UNCHANGED calls
             ELSE /\ calls' = Append(calls, Call(in, sql, r.exc, FALSE, <<>>, <<>>, r.ret, r.sql))
                  /\ UNCHANGED rw
    /\ UNCHANGED <<qkind, sql0>>
    /\ UNCHANGED <<txvars, inited>>

\* The first argument of cur.execute: self.sql as it is when the statement runs.
ExecutedTextOwn(t) == ParseSearch(rw[t].before, rw[t].in).sql
ExecutedText(t) == sql

\* execute_sql, second statement (lines 268, 283, 305, 316): cur.execute(self.sql, values)
\* with whatever the parser returned, also () or None.
RwExecute(t) ==
    /\ rw[t].pc = "parsed"
    /\ calls' = Append(calls, Call(rw[t].in, rw[t].before, "none", TRUE, ExecutedText(t), rw[t].values,
                                   rw[t].ret, sql))
    /\ rw' = [rw EXCEPT ![t] = IdleRw]
    /\ UNCHANGED <<qkind, sql0, sql>>
    /\ UNCHANGED <<txvars, inited>>

\* One thread calls the definition, call after call.
NextRW ==
    \/ \E in \in Inputs : RwParse(1, in)
    \/ RwExecute(1)

\* The pool is initialised before the first call (tests/test_query.py:10-11).
Init == TxInit /\ RwIdle /\ inited = TRUE
InitRW == TxInit /\ RwInit /\ inited = TRUE
SpecRW == InitRW /\ [][NextRW]_vars

\* Several threads call one Update definition, each call's two statements interleaved
\* with those of the others: the definition object and its self.sql are shared.
RaceInputs ==
    { Returns(StrX),
      Returns(Li("tuple", <<StrX, Int1>>)),
      Returns(Li("tuple", <<StrX, List12, Int1>>)),
      Returns(Di((<<"n">> :> List12) @@ (<<"c">> :> Int1))),
      Returns(Di(<<"c">> :> Int1)) }

InitRace ==
    /\ TxInit
    /\ inited = TRUE
    /\ qkind = "Update"
    /\ sql0 \in Templates
    /\ sql = sql0
    /\ rw = [t \in Threads |-> IdleRw]
    /\ calls = <<>>

NextRace ==
    \E t \in Threads :
        \/ \E in \in RaceInputs : RwParse(t, in)
        \/ RwExecute(t)

SpecRace == InitRace /\ [][NextRace]_vars

Next ==
    \E t \in Threads :
        \/ \E what \in Callables : TopCall(t, what)
        \/ TxEnter(t)
        \/ TxStart(t)
        \/ \E what \in Callables : BodyCall(t, what)
        \/ BatchBody(t)
        \/ BodyRaise(t)
        \/ BodyReturn(t)
        \/ BodyCatch(t)
        \/ BodyPropagate(t)
        \/ TxCommit(t)
        \/ TxRollback(t)
        \/ TxClear(t)
        \/ QEnter(t)
        \/ QExec(t)

Spec == Init /\ [][Next]_vars

\* ------------------------------------------------ calls before initialisation

\* init_from_conf_dict / init_from_conf_file (client.py:22-33, utils.py:6-11): the
\* pool is stored in the state all MySQLWrapper instances share, whichever thread
\* calls. Modelled for the first initialisation of a run.
InitPool ==
    /\ ~inited
    /\ inited' = TRUE
    /\ UNCHANGED <<txvars, rwvars>>

\* The program before any init_from_* call.
InitCold == TxInit /\ RwIdle /\ inited = FALSE

NextCold ==
    \/ InitPool
    \/ Next

SpecCold == InitCold /\ [][NextCold]_vars

\* ------------------------------------------------ fair runs without engine failures

\* A pool configured with n of the connections (pool_size of the configuration handed
\* to MySQLConnectionPool, client.py:22-33); a connection outside the pool is marked -1
\* and is never handed out. No engine call fails: the fault budget is spent.
InitFair ==
    /\ \E n \in 1..PoolSize : held = [c \in Conns |-> IF c <= n THEN 0 ELSE -1]
    /\ intx = [c \in Conns |-> FALSE]
    /\ pend = [c \in Conns |-> {}]
    /\ db = {}
    /\ tl = [t \in Threads |-> NoBinding]
    /\ stack = [t \in Threads |-> <<>>]
    /\ obs = [t \in Threads |-> NoObs]
    /\ last = [t \in Threads |-> NoLast]
    /\ ncalls = 0
    /\ nfaults = MaxFaults
    /\ RwIdle
    /\ inited = TRUE

\* The steps a thread inside a call takes by itself: the wrapper code of lines 26-43 and
\* 102-110 and the return of the wrapped function. Whether the wrapped function makes
\* another call, raises or catches is the function's choice.
Proceed(t) ==
    \/ TxEnter(t)
    \/ TxStart(t)
    \/ BatchBody(t)
    \/ BodyReturn(t)
    \/ BodyPropagate(t)
    \/ TxCommit(t)
    \/ TxRollback(t)
    \/ TxClear(t)
    \/ QEnter(t)
    \/ QExec(t)

\* Every thread that can take a step of its own for ever eventually takes one
\* (synchronous blocking calls, each thread scheduled fairly).
SpecFair == InitFair /\ [][Next]_vars /\ \A t \in Threads : WF_vars(Proceed(t))

\* ------------------------------------------------------------------ claims

\* t's last top-level call was a Transactional call (BatchInsert included) that took
\* the owner branch of line 28, and t has not called again.
OwnerDone(t) == last[t].kind = "tx" /\ last[t].owner
Holds(t) == {c \in Conns : held[c] = t}

\* C1: when the wrapped function of an owner Transactional call raises (and rollback and
\* the teardown's engine calls do not fail themselves), the transaction was rolled back
\* and never committed, none of the rows written in the scope is in the database, the
\* caller receives the very error that left the function, and the thread-local holds
\* neither tx_cnx nor tx_cur.
C1_RollbackOnRaise ==
    \A t \in Threads :
        (OwnerDone(t) /\ last[t].bodyErr \notin {"none", "notrun"} /\ last[t].faults = {})
        => /\ last[t].rb = "ok"
           /\ last[t].ncommit = 0
           /\ last[t].w \cap db = {}
           /\ last[t].out = last[t].bodyErr
           /\ tl[Slot(t)] = NoBinding

C1_Witness ==
    \E t \in Threads :
        /\ OwnerDone(t)
        /\ last[t].fn = "user"
        /\ last[t].bodyErr = "E_body"
        /\ last[t].faults = {}
        /\ last[t].w # {}

\* C2: when the wrapped function of an owner Transactional call returns normally (and
\* no engine call of the wrapper fails), commit ran exactly once and rollback never,
\* every row written in the scope is in the database, the caller receives the
\* function's result, and the thread-local holds neither tx_cnx nor tx_cur.
C2_CommitOnReturn ==
    \A t \in Threads :
        (OwnerDone(t) /\ last[t].bodyErr = "none" /\ last[t].faults = {})
        => /\ last[t].ncommit = 1
           /\ last[t].rb = "none"
           /\ last[t].w \subseteq db
           /\ last[t].out = "none"
           /\ last[t].val = last[t].bodyVal
           /\ tl[Slot(t)] = NoBinding

C2_Witness ==
    \E t \in Threads :
        /\ OwnerDone(t)
        /\ last[t].fn = "user"
        /\ last[t].bodyErr = "none"
        /\ last[t].faults = {}
        /\ last[t].w # {}
        /\ last[t].val # 0

\* C3: a call running while an outer Transactional call of the same thread is active
\* is never the owner: it is never about to call start_transaction, commit, rollback or
\* _clear_tx_status, a decorated query uses the shared connection instead of one of its
\* own, and the shared tx_cnx and tx_cur stay bound, at every nesting depth.
C3_NestedNeverControls ==
    \A t \in Threads : \A j \in 1..Depth(t) :
        (\E i \in 1..(j - 1) : stack[t][i].kind = "tx")
        => /\ stack[t][j].pc \notin {"start", "commit", "rollback", "clear"}
           /\ stack[t][j].pc # "enter" => ~stack[t][j].owner
           /\ stack[t][j].pc # "enter" => stack[t][j].cnx = tl[Slot(t)].cnx
           /\ tl[Slot(t)].cnx # 0
           /\ tl[Slot(t)].cur

C3_Witness ==
    \E t \in Threads :
        /\ Depth(t) = 3
        /\ stack[t][1].kind = "tx" /\ stack[t][1].owner
        /\ stack[t][2].kind = "tx" /\ ~stack[t][2].owner
        /\ stack[t][3].kind = "q" /\ stack[t][3].pc = "exec" /\ ~stack[t][3].owner

\* C4 as stated: a scope commits iff its outermost call completes without a failure,
\* and a failure raised at any depth inside the scope, also one an enclosing function
\* body caught, leaves nothing of the scope committed. (Stated for calls in which no
\* engine call of the wrapper fails.)
C4_AnyFailureRollsBack ==
    \A t \in Threads :
        (OwnerDone(t) /\ last[t].faults = {})
        => /\ (last[t].ncommit >= 1) <=> (last[t].out = "none")
           /\ last[t].fail => (last[t].ncommit = 0 /\ last[t].w \cap db = {})

\* C4 amended: commit succeeds exactly when the body of the outermost call returns
\* without a failure leaving it and the engine's commit does not fail; then the
\* scope's rows are in the database; when a failure leaves the outermost body (or the
\* body never ran), none of the scope's rows is. A failure that an enclosing body
\* caught does not prevent the commit.
C4_CommitIffBodyReturns ==
    \A t \in Threads :
        OwnerDone(t)
        => /\ last[t].ncommit =
                 (IF last[t].bodyErr = "none" /\ "commit" \notin last[t].faults THEN 1 ELSE 0)
           /\ last[t].ncommit = 1 => last[t].w \subseteq db
           /\ last[t].bodyErr # "none" => last[t].w \cap db = {}

C4_Witness ==
    \E t \in Threads :
        /\ OwnerDone(t)
        /\ last[t].caught
        /\ last[t].fail
        /\ last[t].ncommit = 1
        /\ last[t].out = "none"

\* C5: every connection a call of thread t works on (the tx_cnx local of a
\* Transactional call, the connection of a decorated query) and the connection bound
\* in t's thread-local were acquired from the pool by t itself and not returned since;
\* and while a Transactional call of t is past its entry, t's binding is still the
\* connection that call looked up: no other thread cleared or replaced it.
C5_ContextIsolation ==
    \A t \in Threads :
        /\ tl[Slot(t)].cnx # 0 => held[tl[Slot(t)].cnx] = t
        /\ \A j \in 1..Depth(t) :
              /\ stack[t][j].cnx # 0 => held[stack[t][j].cnx] = t
              /\ (stack[t][j].kind = "tx" /\ stack[t][j].pc # "enter")
                 => tl[Slot(t)].cnx = stack[t][j].cnx

C5_Witness ==
    \E t, u \in Threads :
        /\ t # u
        /\ Depth(t) > 0 /\ stack[t][1].kind = "tx" /\ stack[t][1].pc \in {"body", "wait"}
        /\ Depth(u) > 0 /\ stack[u][1].kind = "tx" /\ stack[u][1].pc \in {"body", "wait"}
        /\ stack[t][1].cnx # stack[u][1].cnx

\* C6: when start_transaction, commit or rollback failed in an owner call (rollback
\* after a failing body included) and cursor.close() did not, the caller receives an
\* error, the thread-local holds neither tx_cnx nor tx_cur and the thread holds no
\* pooled connection.
C6_ClearedDespiteEngineFailure ==
    \A t \in Threads :
        (OwnerDone(t) /\ last[t].faults # {} /\ "close" \notin last[t].faults)
        => /\ last[t].out # "none"
           /\ tl[Slot(t)] = NoBinding
           /\ Holds(t) = {}

C6_Witness ==
    \E t \in Threads :
        /\ OwnerDone(t)
        /\ last[t].bodyErr = "E_body"
        /\ last[t].rb = "fail"
        /\ last[t].out = "E_rollback"

\* C7: after a Transactional call in which acquiring the prepared cursor or closing
\* it failed, the thread-local holds neither tx_cnx nor tx_cur and the connection is
\* back in the pool.
C7_NoStaleBinding ==
    \A t \in Threads :
        (last[t].kind = "tx" /\ last[t].faults \cap {"cursor", "close"} # {})
        => /\ tl[Slot(t)] = NoBinding
           /\ Holds(t) = {}

\* ------------------------------------------------- claims on the SQL rewriter

\* What the call recorded as c supplied as parameters: the decorated function's
\* return value or, when that is None, kwargs['params'] (lines 211 and 219-221).
Supplied(c) == IF c.in.ret.ty = "none" THEN c.in.kw ELSE c.in.ret

\* The call recorded as c found a named template referencing name, and was given a
\* mapping whose value for name is a str outside ^[a-zA-Z0-9_ ]*$.
BadClause(c, name) ==
    /\ Count(c.before, "?") = 0
    /\ \E k \in 1..Len(FindAll(c.before)) : FindAll(c.before)[k] = <<":">> \o name
    /\ Supplied(c).ty = "dict"
    /\ name \in DOMAIN Supplied(c).map
    /\ Supplied(c).map[name].ty = "str"
    /\ ~Match(Supplied(c).map[name].s)

\* C8: a Select, SelectMany, Update or Delete definition is immutable after
\* construction: its SQL template is never changed by a call, and two calls with the
\* same arguments end the same way, with the same rewritten SQL and the same bound
\* values.
C8_TemplateImmutable ==
    /\ sql = sql0
    /\ \A i, j \in 1..Len(calls) :
        (i < j /\ calls[i].in = calls[j].in) =>
            /\ calls[i].exc = calls[j].exc
            /\ calls[i].executed = calls[j].executed
            /\ calls[i].sql = calls[j].sql
            /\ calls[i].values = calls[j].values

\* C9: whenever a call reaches the engine's execute, the number of bound values
\* passed equals the number of "?" markers in the SQL text passed.
C9_ValuesMatchMarkers ==
    \A i \in 1..Len(calls) :
        calls[i].executed => Len(calls[i].values) = Count(calls[i].sql, "?")

\* C10: in the named dialect, a call whose groupby or orderby value does not match
\* ^[a-zA-Z0-9_ ]*$ is rejected before execution: the engine's execute is not
\* invoked for that call and the template text is left as the call found it.
C10_RejectedBeforeExecute ==
    \A i \in 1..Len(calls) :
        (BadClause(calls[i], GroupBy) \/ BadClause(calls[i], OrderBy)) =>
            /\ ~calls[i].executed
            /\ calls[i].after = calls[i].before

\* The parameter sequence of a positional call: the function's return value, or the
\* positional arguments when it returns None, a non-tuple counting as one parameter
\* (lines 211-215).
PosParams(c) ==
    LET rp == IF c.in.ret.ty = "none" THEN Li("tuple", c.in.args) ELSE c.in.ret
    IN IF rp.ty = "tuple" THEN rp.items ELSE <<rp>>

\* The names a template references, without the colon.
Names(str) == {Tail(FindAll(str)[k]) : k \in 1..Len(FindAll(str))}

\* The call recorded as c found a positional template whose marker count differs from
\* the number of parameters supplied.
CountMismatch(c) ==
    /\ Names(c.before) = {}
    /\ Count(c.before, "?") > 0
    /\ Len(PosParams(c)) # Count(c.before, "?")

\* The call recorded as c found a named template and was given a mapping that holds
\* every referenced name except one.
MissingOneName(c) ==
    /\ Count(c.before, "?") = 0
    /\ Names(c.before) # {}
    /\ Supplied(c).ty = "dict"
    /\ DOMAIN Supplied(c).map \subseteq Names(c.before)
    /\ Cardinality(Names(c.before) \ DOMAIN Supplied(c).map) = 1

\* C11: a binding error fails the call explicitly: a named template called with a
\* mapping that lacks one referenced name, or a positional template called with a
\* parameter count different from its marker count, ends in an error raised to the
\* caller, and the engine's execute is not invoked.
C11_BindingErrorRaises ==
    \A i \in 1..Len(calls) :
        (CountMismatch(calls[i]) \/ MissingOneName(calls[i])) =>
            /\ calls[i].exc # "none"
            /\ ~calls[i].executed

\* C12: a template holding both a "?" marker and a ":name" marker is rejected on
\* every call: ValueError is raised, the engine's execute is not invoked and the
\* template is left unchanged.
C12_MixedRejected ==
    /\ (Count(sql0, "?") > 0 /\ Names(sql0) # {}) => sql = sql0
    /\ \A i \in 1..Len(calls) :
        (Count(calls[i].before, "?") > 0 /\ Names(calls[i].before) # {}) =>
            /\ calls[i].exc = "ValueError"
            /\ ~calls[i].executed
            /\ calls[i].after = calls[i].before

C12_Witness ==
    /\ sql0 = TplMixed
    /\ Len(calls) = 2
    /\ calls[1].in # calls[2].in
    /\ calls[2].exc = "ValueError"
    /\ Supplied(calls[2]).ty = "dict"

\* What one marker becomes for the parameter p: one "?" for a scalar, one "?" per
\* element, separated by ", ", for a list or a tuple.
RECURSIVE MarksFor(_)
MarksFor(n) ==
    IF n = 0 THEN <<>> ELSE IF n = 1 THEN <<"?">> ELSE MarksFor(n - 1) \o <<",", " ", "?">>

Expansion(p) == IF p.ty \in {"list", "tuple"} THEN MarksFor(Len(p.items)) ELSE <<"?">>

\* The parameters ps with every list and tuple replaced by its elements, in place.
RECURSIVE Flattened(_)
Flattened(ps) ==
    IF ps = <<>> THEN <<>>
    ELSE LET n == Len(ps)
         IN Flattened(SubSeq(ps, 1, n - 1)) \o
            (IF ps[n].ty \in {"list", "tuple"} THEN ps[n].items ELSE <<ps[n]>>)

\* The text str from character i on, the k-th and later markers replaced by the
\* expansions of ps[k], ps[k + 1], ... and every other character kept.
RECURSIVE Expanded(_, _, _, _)
Expanded(str, ps, i, k) ==
    IF i > Len(str) THEN <<>>
    ELSE IF str[i] = "?" /\ k <= Len(ps)
         THEN Expansion(ps[k]) \o Expanded(str, ps, i + 1, k + 1)
         ELSE <<str[i]>> \o Expanded(str, ps, i + 1, k)

\* The call recorded as c supplied as many parameters as the definition's positional
\* template has markers.
PositionalCall(c) ==
    /\ Names(sql0) = {}
    /\ Count(sql0, "?") > 0
    /\ Len(PosParams(c)) = Count(sql0, "?")

\* C13: positional rewriting. A call that supplies one parameter per "?" marker of
\* the definition's template executes the template with the i-th marker replaced by
\* one "?" (scalar parameter) or by one "?" per element joined with ", " (list or
\* tuple) and all other text unchanged, and binds the parameters with every list and
\* tuple flattened in place; all-scalar parameters are bound unmodified.
C13_PositionalRewriting ==
    \A i \in 1..Len(calls) :
        PositionalCall(calls[i]) =>
            /\ calls[i].exc = "none"
            /\ calls[i].executed
            /\ calls[i].sql = Expanded(sql0, PosParams(calls[i]), 1, 1)
            /\ calls[i].values = Flattened(PosParams(calls[i]))
            /\ ((\A k \in 1..Len(PosParams(calls[i])) :
                     PosParams(calls[i])[k].ty \notin {"list", "tuple"})
                => (calls[i].values = PosParams(calls[i]) /\ calls[i].sql = sql0))

\* The text str from character i on with every ":name" marker, found by a scan from
\* the left, replaced by the expansion of m[name], and the values these markers
\* bind, in the order of the scan.
RECURSIVE ExpandedNamed(_, _, _)
ExpandedNamed(str, m, i) ==
    IF i > Len(str) THEN <<>>
    ELSE IF str[i] = ":" /\ i < Len(str) /\ str[i + 1] \in WordChars
         THEN Expansion(m[SubSeq(str, i + 1, WordEnd(str, i + 1))])
              \o ExpandedNamed(str, m, WordEnd(str, i + 1) + 1)
         ELSE <<str[i]>> \o ExpandedNamed(str, m, i + 1)

RECURSIVE NamedValues(_, _, _)
NamedValues(str, m, i) ==
    IF i > Len(str) THEN <<>>
    ELSE IF str[i] = ":" /\ i < Len(str) /\ str[i + 1] \in WordChars
         THEN Flattened(<<m[SubSeq(str, i + 1, WordEnd(str, i + 1))]>>)
              \o NamedValues(str, m, WordEnd(str, i + 1) + 1)
         ELSE NamedValues(str, m, i + 1)

\* The call recorded as c supplied a mapping that has every name the definition's
\* named template references, none of them groupby or orderby.
NamedCall(c) ==
    /\ Count(sql0, "?") = 0
    /\ Names(sql0) # {}
    /\ Names(sql0) \cap {GroupBy, OrderBy} = {}
    /\ Supplied(c).ty = "dict"
    /\ Names(sql0) \subseteq DOMAIN Supplied(c).map

\* C14: named rewriting. A call whose mapping has every name of the definition's
\* template executes the template with each ":name" replaced by one "?" (scalar
\* value) or by one "?" per element joined with ", " (list or tuple), and binds the
\* flattened values in the order a left-to-right scan of the template finds the
\* markers.
C14_NamedRewriting ==
    \A i \in 1..Len(calls) :
        NamedCall(calls[i]) =>
            /\ calls[i].exc = "none"
            /\ calls[i].executed
            /\ calls[i].sql = ExpandedNamed(sql0, Supplied(calls[i]).map, 1)
            /\ calls[i].values = NamedValues(sql0, Supplied(calls[i]).map, 1)

\* A groupby / orderby value inside the allow-list [a-zA-Z0-9_ ]*: a str, or a list or
\* tuple of such strs; and the text it stands for in the SQL.
Allowed(v) ==
    IF v.ty \in {"list", "tuple"}
    THEN \A k \in 1..Len(v.items) : v.items[k].ty = "str" /\ AllIdent(v.items[k].s)
    ELSE v.ty = "str" /\ AllIdent(v.s)

SpliceText(v) ==
    IF v.ty \in {"list", "tuple"}
    THEN Join([k \in 1..Len(v.items) |-> v.items[k].s], <<",">>)
    ELSE v.s

\* The text str from character i on with ":groupby" and ":orderby" replaced by the
\* text of their values and every other ":name" by the expansion of m[name]; and the
\* values bound, those of groupby and orderby left out.
RECURSIVE Spliced(_, _, _)
Spliced(str, m, i) ==
    IF i > Len(str) THEN <<>>
    ELSE IF str[i] = ":" /\ i < Len(str) /\ str[i + 1] \in WordChars
         THEN LET name == SubSeq(str, i + 1, WordEnd(str, i + 1))
              IN (IF name \in {GroupBy, OrderBy} THEN SpliceText(m[name]) ELSE Expansion(m[name]))
                 \o Spliced(str, m, WordEnd(str, i + 1) + 1)
         ELSE <<str[i]>> \o Spliced(str, m, i + 1)

RECURSIVE DataValues(_, _, _)
DataValues(str, m, i) ==
    IF i > Len(str) THEN <<>>
    ELSE IF str[i] = ":" /\ i < Len(str) /\ str[i + 1] \in WordChars
         THEN LET name == SubSeq(str, i + 1, WordEnd(str, i + 1))
              IN (IF name \in {GroupBy, OrderBy} THEN <<>> ELSE Flattened(<<m[name]>>))
                 \o DataValues(str, m, WordEnd(str, i + 1) + 1)
         ELSE DataValues(str, m, i + 1)

\* The call recorded as c is made on a named template that references groupby or
\* orderby, with a mapping of exactly the referenced names whose groupby and orderby
\* values are inside the allow-list.
ClauseCall(c) ==
    /\ Count(sql0, "?") = 0
    /\ Names(sql0) \cap {GroupBy, OrderBy} # {}
    /\ Supplied(c).ty = "dict"
    /\ DOMAIN Supplied(c).map = Names(sql0)
    /\ \A name \in Names(sql0) \cap {GroupBy, OrderBy} : Allowed(Supplied(c).map[name])

\* C15: a groupby or orderby value inside the allow-list is not bound as data: the
\* call executes the template with the value's text in place of the marker and binds
\* no value for it; a list or tuple value is accepted and spliced as its elements
\* joined with ",".
C15_ClauseSpliced ==
    \A i \in 1..Len(calls) :
        ClauseCall(calls[i]) =>
            /\ calls[i].exc = "none"
            /\ calls[i].executed
            /\ calls[i].sql = Spliced(sql0, Supplied(calls[i]).map, 1)
            /\ calls[i].values = DataValues(sql0, Supplied(calls[i]).map, 1)

\* ------------------------------------------- claims on connections and ordering

\* Thread t's thread-local holds both tx_cnx and tx_cur.
Ambient(t) == tl[Slot(t)].cnx # 0 /\ tl[Slot(t)].cur

\* A step of the decorated query that is the innermost call of thread t.
\* Entering: under an ambient binding it takes nothing from the pool and works on the
\* bound connection; otherwise it takes exactly one free connection, its own, or, when
\* cursor() fails, raises with the pool as it was. Leaving (returning or raising): it
\* returns its own connection to the pool, or leaves pool and binding alone when it
\* borrowed the ambient pair. It never changes the thread-local.
QueryStep(t) ==
    (Depth(t) > 0 /\ Top(t).kind = "q" /\ stack'[t] # stack[t]) =>
        /\ tl' = tl
        /\ IF Top(t).pc = "enter"
           THEN IF Ambient(t)
                THEN /\ held' = held
                     /\ Len(stack'[t]) = Depth(t)
                     /\ stack'[t][Depth(t)].cnx = tl[Slot(t)].cnx
                ELSE \/ /\ Len(stack'[t]) = Depth(t)
                        /\ \E c \in Conns :
                              /\ held[c] = 0
                              /\ held' = [held EXCEPT ![c] = t]
                              /\ stack'[t][Depth(t)].cnx = c
                     \/ /\ Len(stack'[t]) = Depth(t) - 1
                        /\ held' = held
           ELSE /\ Len(stack'[t]) = Depth(t) - 1
                /\ IF Ambient(t)
                   THEN held' = held
                   ELSE held[Top(t).cnx] = t /\ held' = [held EXCEPT ![Top(t).cnx] = 0]

\* C16: a decorated query called with no ambient binding acquires exactly one pooled
\* connection (and its cursor) and has released it when the call exits, returning or
\* raising; called under an ambient binding it acquires nothing from the pool and
\* closes neither the shared cursor nor the shared connection.
C16_QueryLifecycle == [][\A t \in Threads : QueryStep(t)]_vars

C16_Witness ==
    \E t, u \in Threads :
        /\ stack[t] = <<>>
        /\ last[t].kind = "q"
        /\ last[t].out = "E_exec"
        /\ Holds(t) = {}
        /\ Depth(u) = 2
        /\ stack[u][2].kind = "q" /\ stack[u][2].pc = "exec"
        /\ Holds(u) = {tl[Slot(u)].cnx}

\* A top-level BatchInsert call of thread t that finds no binding and gets past line
\* 27 takes the owner branch: its next engine call is start_transaction.
BatchEntry(t) ==
    (/\ Depth(t) = 1
     /\ Top(t).kind = "tx" /\ Top(t).fn = "batch" /\ Top(t).pc = "enter"
     /\ tl[Slot(t)] = NoBinding
     /\ Len(stack'[t]) = 1
     /\ stack'[t][1].pc # "enter")
    => (stack'[t][1].owner /\ stack'[t][1].pc = "start")

\* The outcome of an owner BatchInsert call in which no engine call of the wrapper
\* itself failed: committed once and the row count returned, or, executemany having
\* raised, rolled back and the error re-raised; the binding absent either way.
BatchOutcome(t) ==
    (OwnerDone(t) /\ last[t].fn = "batch" /\ last[t].faults = {}) =>
        /\ last[t].bodyErr \in {"none", "E_exec"}
        /\ tl[Slot(t)] = NoBinding
        /\ last[t].bodyErr = "none" =>
              /\ last[t].ncommit = 1 /\ last[t].rb = "none"
              /\ last[t].out = "none" /\ last[t].val = last[t].bodyVal
              /\ last[t].w # {} /\ last[t].w \subseteq db
        /\ last[t].bodyErr = "E_exec" =>
              /\ last[t].ncommit = 0 /\ last[t].rb = "ok"
              /\ last[t].out = "E_exec"
              /\ last[t].w \cap db = {}

\* The frames of BatchInsert calls on t's stack: the statement runs on the connection
\* of the enclosing Transactional frame, inside its transaction, and a BatchInsert
\* below another Transactional frame is never about to start, commit, roll back or clear.
BatchFrames(t) ==
    \A j \in 1..Depth(t) :
        /\ (stack[t][j].kind = "q" /\ stack[t][j].fn = "batch" /\ stack[t][j].pc = "exec")
           => /\ stack[t][j].cnx = stack[t][j - 1].cnx
              /\ held[stack[t][j].cnx] = t
              /\ intx[stack[t][j].cnx]
        /\ (stack[t][j].kind = "tx" /\ stack[t][j].fn = "batch" /\ j > 1)
           => stack[t][j].pc \notin {"start", "commit", "rollback", "clear"}

\* C17: a BatchInsert called with no ambient transaction is the transaction owner: it
\* starts a transaction, runs executemany on the scope's connection, commits, returns
\* the row count and leaves no binding; when executemany raises, the transaction is
\* rolled back, the error re-raised and no binding left. Under an ambient transaction
\* it neither commits nor rolls back.
C17_BatchInsertOwnsTransaction ==
    /\ [][\A t \in Threads : BatchEntry(t)]_vars
    /\ [](\A t \in Threads : BatchOutcome(t) /\ BatchFrames(t))

C17_Witness ==
    \E t \in Threads :
        /\ OwnerDone(t)
        /\ last[t].fn = "batch"
        /\ last[t].bodyErr = "E_exec"
        /\ last[t].rb = "ok"
        /\ tl[Slot(t)] = NoBinding

\* A decorated query or a Transactional call of thread t that reaches get_connection
\* before the pool is initialised ends in that step with the "MySQL not inited"
\* RuntimeError: no statement has run, and pool, connections and thread-local are
\* as they were.
ColdCall(t) ==
    (~inited /\ Depth(t) > 0 /\ Top(t).pc = "enter" /\ stack'[t] # stack[t]) =>
        /\ stack'[t] = <<>>
        /\ last'[t].out = "E_notinited"
        /\ last'[t].w = {} /\ last'[t].bodyErr = "notrun"
        /\ last'[t].ncommit = 0 /\ last'[t].rb = "none"
        /\ UNCHANGED <<held, intx, pend, db, tl>>

\* Once initialised the pool stays, and no call ends with the RuntimeError any more.
WarmCall(t) ==
    /\ inited => inited'
    /\ (inited /\ last'[t] # last[t]) => last'[t].out # "E_notinited"

\* Before initialisation nothing was acquired, bound or written; a call that ended
\* with the RuntimeError left no binding and holds no connection.
ColdState ==
    /\ ~inited =>
          /\ \A c \in Conns : held[c] = 0
          /\ db = {}
          /\ \A t \in Threads : tl[Slot(t)] = NoBinding
    /\ \A t \in Threads :
          last[t].out = "E_notinited" =>
              /\ tl[Slot(t)] = NoBinding
              /\ Holds(t) = {}
              /\ last[t].w = {}

\* C18: before the pool is initialised every decorated query call and every
\* Transactional call fails at once with the "MySQL not inited" RuntimeError, without
\* running any SQL of the body and leaving no binding; after an init_from_* call, by
\* whichever thread, get_connection serves every later call from the shared pool.
C18_NotInitedFailsFast ==
    /\ [][\A t \in Threads : ColdCall(t) /\ WarmCall(t)]_vars
    /\ []ColdState

C18_Witness ==
    \E t, u \in Threads :
        /\ inited
        /\ last[t].kind = "tx"
        /\ last[t].out = "E_notinited"
        /\ Depth(u) > 0
        /\ Holds(u) # {}

\* The SQL text the parser of the call recorded as c produced for c's own parameters.
OwnText(c) == ParseSearch(c.before, c.in).sql

\* The step in which thread t's call runs cur.execute: the text passed is the shared
\* self.sql of that moment, whichever call wrote it last, with the values t's own
\* parser returned.
ExecuteStep(t) ==
    (rw[t].pc = "parsed" /\ rw'[t].pc = "idle") =>
        /\ Len(calls') = Len(calls) + 1
        /\ calls'[Len(calls')].executed
        /\ calls'[Len(calls')].sql = sql
        /\ calls'[Len(calls')].values = rw[t].values
        /\ sql' = sql

\* C19: rewriting self.sql in place is a concurrency hazard. Every call executes the
\* definition's shared text as it is when its execute runs, not the text its own
\* parser produced, so calls of two threads with different parameters can interleave
\* such that one executes the text the other rewrote, with a marker count that does
\* not match its own values (the interleaving is the state C19_Witness describes).
C19_ExecutesSharedText == [][\A t \in Threads : ExecuteStep(t)]_vars

C19_Witness ==
    \E i, j \in 1..Len(calls) :
        /\ i # j
        /\ calls[i].in # calls[j].in
        /\ calls[i].executed /\ calls[i].ret = "values"
        /\ Len(calls[i].values) = Count(OwnText(calls[i]), "?")
        /\ calls[i].sql # OwnText(calls[i])
        /\ calls[i].sql = OwnText(calls[j])
        /\ Count(calls[i].sql, "?") # Len(calls[i].values)

\* What the order of the engine calls leaves visible in a frame of thread t: while
\* the body of an owner call runs, and when a statement of its scope is about to
\* execute, start_transaction has succeeded; a statement executes on a connection the
\* thread still holds; a scope has not both committed and rolled back; the teardown
\* is reached only after the commit succeeded or rollback was called.
OrderInFrames(t) ==
    /\ ~(last[t].ncommit >= 1 /\ last[t].rb # "none")
    /\ \A j \in 1..Depth(t) :
          /\ (stack[t][j].kind = "tx" /\ stack[t][j].owner
                /\ stack[t][j].pc \in {"body", "wait", "handle", "commit"})
             => intx[stack[t][j].cnx]
          /\ (stack[t][j].kind = "q" /\ stack[t][j].pc = "exec")
             => /\ held[stack[t][j].cnx] = t
                /\ (\E i \in 1..(j - 1) : stack[t][i].kind = "tx" /\ stack[t][i].owner)
                   => intx[stack[t][j].cnx]
          /\ stack[t][j].kind = "tx"
             => /\ ~(stack[t][j].ncommit >= 1 /\ stack[t][j].rb # "none")
                /\ stack[t][j].pc = "clear"
                   => (stack[t][j].ncommit = 1 \/ stack[t][j].rb # "none")

\* The step in which an owner call of thread t returns or raises: it leaves from the
\* teardown, with the shared cursor closed (tx_cur unbound) and the shared connection
\* closed (unbound and back in the pool).
OwnerExit(t) ==
    (Depth(t) > 0 /\ Top(t).kind = "tx" /\ Top(t).owner /\ Len(stack'[t]) < Depth(t)) =>
        /\ Top(t).pc = "clear"
        /\ tl'[Slot(t)] = NoBinding
        /\ held'[Top(t).cnx] = 0

\* C20: in an owner Transactional call start_transaction precedes every statement of
\* the body; a successful commit and a rollback never both occur in one scope; the
\* shared cursor and then the shared connection are closed after the commit or the
\* rollback and before the call returns or raises; and no statement is executed on
\* the scope's connection after it was closed.
C20_EngineEventOrder ==
    /\ [](\A t \in Threads : OrderInFrames(t))
    /\ [][\A t \in Threads : OwnerExit(t)]_vars

\* ------------------------------------- further claims on the SQL rewriter

\* The binding-error paths, told from what a call c (a record with the text it found,
\* before, and what it supplied, in) brings: a positional text with a parameter count
\* different from its marker count, or with no marker; a text mixing both dialects; a
\* named text given no mapping, a mapping of another size than the markers found, a
\* mapping that lacks a name, or a groupby / orderby value the allow-list test refuses
\* (a str outside it, or no str at all).
PositionalError(c) ==
    /\ Names(c.before) = {}
    /\ Len(PosParams(c)) # Count(c.before, "?") \/ Count(c.before, "?") = 0

MixedError(c) == Names(c.before) # {} /\ Count(c.before, "?") > 0

NamedError(c) ==
    /\ Names(c.before) # {}
    /\ Count(c.before, "?") = 0
    /\ \/ Supplied(c).ty # "dict"
       \/ /\ Supplied(c).ty = "dict"
          /\ \/ Cardinality(DOMAIN Supplied(c).map) # Len(FindAll(c.before))
             \/ \E name \in Names(c.before) : name \notin DOMAIN Supplied(c).map
             \/ \E name \in Names(c.before) \cap {GroupBy, OrderBy} :
                   /\ name \in DOMAIN Supplied(c).map
                   /\ \/ Supplied(c).map[name].ty # "str"
                      \/ ~Match(Supplied(c).map[name].s)

BindingError(c) == PositionalError(c) \/ MixedError(c) \/ NamedError(c)

\* C21: on every binding-error path of the rewriter the definition's self.sql is left
\* exactly as the call found it: after the parser ran, and when the call is over.
C21_ErrorPathsKeepTemplate ==
    /\ (rw[1].pc = "parsed" /\ BindingError(rw[1])) => sql = rw[1].before
    /\ \A i \in 1..Len(calls) :
          BindingError(calls[i]) =>
              /\ calls[i].after = calls[i].before
              /\ calls[i].executed => calls[i].sql = calls[i].before

C21_Witness ==
    /\ Len(calls) = 2
    /\ sql = sql0
    /\ BadClause(calls[1], GroupBy) /\ calls[1].executed
    /\ Supplied(calls[2]).ty = "dict"
    /\ Cardinality(DOMAIN Supplied(calls[2]).map) # Len(FindAll(calls[2].before))
    /\ calls[2].executed

\* The call recorded as c finds the named template as it was constructed and brings a
\* mapping of exactly the names the template references, its groupby / orderby values
\* strs inside the allow-list.
FreshNamedCall(c) ==
    /\ c.before = sql0
    /\ Names(sql0) # {}
    /\ Count(sql0, "?") = 0
    /\ Supplied(c).ty = "dict"
    /\ DOMAIN Supplied(c).map = Names(sql0)
    /\ \A name \in Names(sql0) \cap {GroupBy, OrderBy} :
          Supplied(c).map[name].ty = "str" /\ AllIdent(Supplied(c).map[name].s)

\* C22: in the named dialect every placeholder occurrence found in the template is
\* replaced by its own expansion and no other text is changed, also when one name is
\* a prefix of another or a name occurs more than once.
C22_EachOccurrenceReplaced ==
    \A i \in 1..Len(calls) :
        FreshNamedCall(calls[i]) =>
            /\ calls[i].executed
            /\ calls[i].sql = Spliced(sql0, Supplied(calls[i]).map, 1)

\* Thread t is inside a transaction scope: a Transactional call that took the owner
\* branch of line 28 is on its stack, between _get_tx_cnx_and_cur and _clear_tx_status.
InScope(t) == \E k \in 1..Depth(t) : stack[t][k].kind = "tx" /\ stack[t][k].owner

\* Thread t is about to ask the pool for a connection (line 49 or line 107).
AtPool(t) ==
    \/ Running(t, "tx", "enter") /\ tl[Slot(t)].cnx = 0
    \/ Running(t, "q", "enter") /\ ~UseShared(tl[Slot(t)])

OneConnection ==
    \A t \in Threads :
        /\ InScope(t) =>
              /\ Holds(t) = {tl[Slot(t)].cnx}
              /\ \A k \in 1..Depth(t) : stack[t][k].cnx \in {0, tl[Slot(t)].cnx}
        /\ AtPool(t) => Holds(t) = {}

AllReturned == \A t \in Threads : stack[t] = <<>>

====
